---- MODULE Spec2Model ----
(***************************************************************************)
(* Model of data/secscan_model/secscan_v4_model.py (V4SecurityScanner):    *)
(* several security workers run perform_indexing and                       *)
(* perform_indexing_recent_manifests against one ManifestSecurityStatus    *)
(* table and one remote indexing engine.                                   *)
(*                                                                         *)
(* Time is a counter of ticks; one tick stands for the configured reindex  *)
(* threshold (86400 s by default).  A row's last_indexed is the tick at    *)
(* which it was created (the column's default is utcnow()).                *)
(***************************************************************************)
EXTENDS Integers, Sequences, FiniteSets, TLC

\* ------------------------------------------------------------------ bounds
\* manifests ever pushed: in the one-worker specifications, and where
\* two workers race
MaxManifest == 2
MaxRaceManifest == 1
MaxTime == 2
\* SECURITY_SCANNER_V4_REINDEX_THRESHOLD, in ticks
ReindexThresholdTicks == 1
\* SECURITY_SCANNER_V4_BATCH_SIZE (the default: windows are auto-sized)
BatchSizeConfig == 0

Workers == {"w1", "w2"}
ManifestIds == 1..(IF MaxManifest >= MaxRaceManifest THEN MaxManifest
                   ELSE MaxRaceManifest)
Kinds == {"image", "list", "nolayers"}
Fingerprints == <<"h1", "h2">>

\* ------------------------------------------------------------- data types
None == <<>>
ScanToken(min_id) == <<min_id>>

COMPLETED == "COMPLETED"
FAILED == "FAILED"
MANIFEST_UNSUPPORTED == "MANIFEST_UNSUPPORTED"
IN_PROGRESS == "IN_PROGRESS"

Index_Finished == "IndexFinished"
Index_Error == "IndexError"
ReportStates == {Index_Finished, Index_Error, "IndexScanning"}

APIRequestFailure == "APIRequestFailure"
InvalidContentSent == "InvalidContentSent"

RepoOf(m) == "repo"

VARIABLES
  kind,     \* kind[m]: what manifest m is; Len(kind) is the largest identifier
  store,    \* store[m]: the ManifestSecurityStatus rows whose manifest is m
  now,      \* the clock (utcnow), in ticks
  engine,   \* index into Fingerprints: the remote engine's current state
  pc,       \* per worker: idle, started, fetch, next, submit, handle
  token,    \* per worker: the token its caller holds (None or ScanToken)
  mode,     \* per worker: which entry point the running pass came from
  est,      \* per worker: what state() answered
  thr,      \* per worker: reindex_threshold of the running pass
  lo,       \* per worker: min_id of the iterator
  hi,       \* per worker: max_id of the iterator
  bs,       \* per worker: window width of the iterator
  qi,       \* per worker: which of the three chained queries is running
  win,      \* per worker: first identifier of the next window
  rows,     \* per worker: rows of the current window not yet finished
  abt,      \* per worker: the current window's abort flag
  resp,     \* per worker: what index() answered for the current candidate
  sent,     \* per worker: the manifests handed to index() in the current call
  api       \* the last call of a lookup or notification function, and its result

env == <<kind, store, now, engine, api>>
pass == <<mode, est, thr, lo, hi, bs, qi, win, rows, abt, resp, sent>>
vars == <<kind, store, now, engine, pc, token, mode, est, thr, lo, hi, bs, qi,
          win, rows, abt, resp, sent, api>>

\* no lookup or notification function has been called
NoCall == [fn |-> "-", inp |-> <<>>, out |-> <<>>]

NoResp == [kind |-> "none", state |-> "", err |-> "", hash |-> ""]

MaxOf(S) == CHOOSE x \in S : \A y \in S : y <= x
MinOf(S) == CHOOSE x \in S : \A y \in S : x <= y

\* Manifest.select(fn.Max(Manifest.id)).scalar(), fn.Min likewise
Existing == 1..Len(kind)
MaxManifestId == IF Existing = {} THEN None ELSE <<MaxOf(Existing)>>
MinManifestId == IF Existing = {} THEN None ELSE <<MinOf(Existing)>>

EngineHash == Fingerprints[engine]

\* ----------------------------------------------------- the status table
\* ManifestSecurityStatus.create(...): last_indexed defaults to utcnow(),
\* error_json to {} when the caller gives none.
NewStatus(m, status, hash, err) ==
  [manifest |-> m, repository |-> RepoOf(m), index_status |-> status,
   indexer_hash |-> hash, indexer_version |-> "V4", last_indexed |-> now,
   error_json |-> err, metadata_json |-> "{}"]

\* (mutant: the insert without the delete before it)
insert_only(st, m, row) == [st EXCEPT ![m] = Append(@, row)]

\* with db_transaction(): delete().where(manifest == m [, repository == repo]);
\* create(...).  Every row of manifest m carries RepoOf(m), so both delete
\* conditions of the source select the same rows.
delete_then_create(st, m, row) ==
  [st EXCEPT ![m] = Append(SelectSeq(@, LAMBDA r :
                      ~(r.manifest = m /\ r.repository = RepoOf(m))), row)]

mark_manifest_unsupported(st, m) ==
  delete_then_create(st, m, NewStatus(m, MANIFEST_UNSUPPORTED, "none", "{}"))

\* report["state"] -> index_status; None: "Unknown state don't save anything"
(* mutant: an unknown report state saved as a failure *)
index_status_for_any(state) ==
  IF state = Index_Finished THEN <<COMPLETED>> ELSE <<FAILED>>

index_status_for(state) ==
  IF state = Index_Finished THEN <<COMPLETED>>
  ELSE IF state = Index_Error THEN <<FAILED>>
  ELSE None

\* ------------------------------------------------------------ the queries
\* A candidate is a Manifest row with the joined status row, if any:
\* mss = <<row>>, or <<>> when the left outer join found none (peewee then
\* leaves the attribute unset).
Candidate(m, joined) == [id |-> m, mss |-> joined]

\* Manifest.select(Manifest, ManifestSecurityStatus).join(...): one result
\* per status row kept by the where clause
Joined(m, kept) == [i \in 1..Len(kept) |-> Candidate(m, <<kept[i]>>)]

(* mutant: the threshold without effect on the queries *)
OlderThanAnything(last_indexed, reindex_threshold) == TRUE

\* `last_indexed < reindex_threshold or DEFAULT...`: the comparison builds a
\* query expression object, which is truthy, so `or` yields the comparison
\* and the default is never used.
OlderThan(last_indexed, reindex_threshold) == last_indexed < reindex_threshold

not_indexed_query(m) ==
  IF store[m] = <<>> THEN <<Candidate(m, <<>>)>> ELSE <<>>

index_error_query(m, reindex_threshold) ==
  Joined(m, SelectSeq(store[m], LAMBDA r :
              /\ r.index_status = FAILED
              /\ OlderThan(r.last_indexed, reindex_threshold)))

(* mutant: the third query without its exclusion of unsupported manifests *)
needs_reindexing_any(m, indexer_hash, reindex_threshold) ==
  Joined(m, SelectSeq(store[m], LAMBDA r :
              /\ r.indexer_hash # indexer_hash
              /\ OlderThan(r.last_indexed, reindex_threshold)))

(* mutant: the third query without its comparison of fingerprints *)
needs_reindexing_stale(m, indexer_hash, reindex_threshold) ==
  Joined(m, SelectSeq(store[m], LAMBDA r :
              /\ r.index_status # MANIFEST_UNSUPPORTED
              /\ OlderThan(r.last_indexed, reindex_threshold)))

needs_reindexing_query(m, indexer_hash, reindex_threshold) ==
  Joined(m, SelectSeq(store[m], LAMBDA r :
              /\ r.index_status # MANIFEST_UNSUPPORTED
              /\ r.indexer_hash # indexer_hash
              /\ OlderThan(r.last_indexed, reindex_threshold)))

\* the three queries in the order itertools.chain runs them
Query(q, m, indexer_hash, reindex_threshold) ==
  CASE q = 1 -> not_indexed_query(m)
    [] q = 2 -> index_error_query(m, reindex_threshold)
    [] q = 3 -> needs_reindexing_query(m, indexer_hash, reindex_threshold)

\* int(4 ** log10(max(10, max_id - min_id))), tabulated for spans up to 110
AutoSteps == <<15, 20, 26, 32, 39, 46, 54, 63, 71, 81, 90, 100>>
AutoBatchSize(span) ==
  4 + Cardinality({i \in 1..Len(AutoSteps) : AutoSteps[i] <= span})

BatchSizeFor(batch_size, min_id, max_id) ==
  IF batch_size = 0 THEN AutoBatchSize(max_id - min_id) ELSE batch_size

\* The sampler: one window [a, a + width) of [min_id, max_id], the filtered
\* query ordered by identifier.
RECURSIVE WindowRows(_, _, _, _, _)
WindowRows(q, a, b, indexer_hash, reindex_threshold) ==
  IF a > b THEN <<>>
  ELSE (IF a \in Existing THEN Query(q, a, indexer_hash, reindex_threshold)
        ELSE <<>>)
       \o WindowRows(q, a + 1, b, indexer_hash, reindex_threshold)

\* ---------------------------------------------------------- _index helpers
\* getattr(candidate, "manifestsecuritystatus", None): the row joined when the
\* window was queried; manifestsecuritystatus_set: a query of the table now.
should_skip_indexing(manifest_candidate, reindex_threshold) ==
  IF manifest_candidate.mss # <<>>
  THEN manifest_candidate.mss[1].last_indexed >= reindex_threshold
  ELSE Len(store[manifest_candidate.id]) > 0

\* ------------------------------------------------------------------- Init
Init ==
  /\ kind = <<>>
  /\ store = [m \in ManifestIds |-> <<>>]
  /\ now = 0
  /\ engine = 1
  /\ pc = [w \in Workers |-> "idle"]
  /\ token = [w \in Workers |-> None]
  /\ mode = [w \in Workers |-> "-"]
  /\ est = [w \in Workers |-> "-"]
  /\ thr = [w \in Workers |-> 0]
  /\ lo = [w \in Workers |-> 0]
  /\ hi = [w \in Workers |-> 0]
  /\ bs = [w \in Workers |-> 0]
  /\ qi = [w \in Workers |-> 0]
  /\ win = [w \in Workers |-> 0]
  /\ rows = [w \in Workers |-> <<>>]
  /\ abt = [w \in Workers |-> FALSE]
  /\ resp = [w \in Workers |-> NoResp]
  /\ sent = [w \in Workers |-> <<>>]
  /\ api = NoCall

\* ------------------------------------------------------------ environment
\* a manifest is pushed: identifiers are assigned in increasing order
CreateManifest(limit) ==
  /\ Len(kind) < limit
  /\ \E k \in Kinds : kind' = Append(kind, k)
  /\ UNCHANGED <<store, now, engine, api, pc, token>> /\ UNCHANGED pass

Tick ==
  /\ now < MaxTime
  /\ now' = now + 1
  /\ UNCHANGED <<kind, store, engine, api, pc, token>> /\ UNCHANGED pass

\* the remote engine is upgraded: its fingerprint changes
EngineUpgrade ==
  /\ engine < Len(Fingerprints)
  /\ engine' = engine + 1
  /\ UNCHANGED <<kind, store, now, api, pc, token>> /\ UNCHANGED pass

\* ------------------------------------------------------- leaving a pass
\* the pass is over for worker w: its locals are gone
Leave(w) ==
  /\ pc' = [pc EXCEPT ![w] = "idle"]
  /\ mode' = [mode EXCEPT ![w] = "-"]
  /\ est' = [est EXCEPT ![w] = "-"]
  /\ thr' = [thr EXCEPT ![w] = 0]
  /\ lo' = [lo EXCEPT ![w] = 0]
  /\ hi' = [hi EXCEPT ![w] = 0]
  /\ bs' = [bs EXCEPT ![w] = 0]
  /\ qi' = [qi EXCEPT ![w] = 0]
  /\ win' = [win EXCEPT ![w] = 0]
  /\ rows' = [rows EXCEPT ![w] = <<>>]
  /\ abt' = [abt EXCEPT ![w] = FALSE]
  /\ resp' = [resp EXCEPT ![w] = NoResp]
  /\ sent' = [sent EXCEPT ![w] = <<>>]

\* the entry point returns `result` to the caller, which keeps it as the
\* token of its next perform_indexing call
Return(w, result) ==
  /\ Leave(w)
  /\ token' = [token EXCEPT ![w] = result]

\* an exception leaves the entry point: the caller keeps the token it had
Raise(w) ==
  /\ Leave(w)
  /\ UNCHANGED token

\* ------------------------------------------------------------ entry points
\* perform_indexing / perform_indexing_recent_manifests, up to the answer of
\* self._secscan_api.state()
CallState(w) ==
  /\ pc[w] = "idle"
  /\ \E md \in {"full", "recent"} : mode' = [mode EXCEPT ![w] = md]
  /\ \E answer \in {EngineHash, APIRequestFailure} :
       est' = [est EXCEPT ![w] = answer]
  /\ pc' = [pc EXCEPT ![w] = "started"]
  /\ UNCHANGED <<token, thr, lo, hi, bs, qi, win, rows, abt, resp, sent>>
  /\ UNCHANGED env

\* except APIRequestFailure: return None
StateFailed(w) ==
  /\ pc[w] = "started"
  /\ est[w] = APIRequestFailure
  /\ Return(w, IF mode[w] = "full" THEN None ELSE token[w])
  /\ UNCHANGED env

\* _get_manifest_iterator(indexer_state, min_id, max_id, batch_size, threshold)
StartIterator(w, min_id, max_id, batch_size) ==
  /\ thr' = [thr EXCEPT ![w] = now - ReindexThresholdTicks]
  /\ lo' = [lo EXCEPT ![w] = min_id]
  /\ hi' = [hi EXCEPT ![w] = max_id]
  /\ bs' = [bs EXCEPT ![w] = BatchSizeFor(batch_size, min_id, max_id)]
  /\ qi' = [qi EXCEPT ![w] = 1]
  /\ win' = [win EXCEPT ![w] = min_id]
  /\ pc' = [pc EXCEPT ![w] = "fetch"]
  /\ UNCHANGED <<token, mode, est, rows, abt, resp, sent>>

(* mutant: the pass that starts one past the token *)
start_index_past(start_token) ==
  IF start_token # None THEN <<start_token[1] + 1>> ELSE MinManifestId

\* start_token.min_id if start_token is not None else Min(Manifest.id)
start_index_of(start_token) ==
  IF start_token # None THEN start_token ELSE MinManifestId

\* max_id is None or start_index is None or start_index > max_id
NothingToDo(w) ==
  IF MaxManifestId = None \/ start_index_of(token[w]) = None THEN TRUE
  ELSE start_index_of(token[w])[1] > MaxManifestId[1]

PerformIndexingEmpty(w) ==
  /\ pc[w] = "started" /\ mode[w] = "full"
  /\ est[w] # APIRequestFailure
  /\ NothingToDo(w)
  /\ Return(w, None)
  /\ UNCHANGED env

PerformIndexingBegin(w) ==
  /\ pc[w] = "started" /\ mode[w] = "full"
  /\ est[w] # APIRequestFailure
  /\ ~NothingToDo(w)
  /\ StartIterator(w, start_index_of(token[w])[1], MaxManifestId[1],
                   BatchSizeConfig)
  /\ UNCHANGED env

Max2(a, b) == IF a >= b THEN a ELSE b

\* perform_indexing_recent_manifests: end_index - batch_size raises TypeError
\* when there is no manifest
RecentNoManifest(w) ==
  /\ pc[w] = "started" /\ mode[w] = "recent"
  /\ est[w] # APIRequestFailure
  /\ MaxManifestId = None
  /\ Raise(w)
  /\ UNCHANGED env

RecentBegin(w) ==
  /\ pc[w] = "started" /\ mode[w] = "recent"
  /\ est[w] # APIRequestFailure
  /\ MaxManifestId # None
  /\ StartIterator(w, Max2(MaxManifestId[1] - BatchSizeConfig, 1),
                   MaxManifestId[1], Max2(BatchSizeConfig \div 20, 1))
  /\ UNCHANGED env

\* -------------------------------------------------------------- the sampler
Min2(a, b) == IF a <= b THEN a ELSE b

\* all windows of all three queries have been fetched
Exhausted(w) == win[w] > hi[w] /\ qi[w] = 3

\* the query and first identifier of the next window: when one query's range
\* is used up the chain goes on with the next query, from min_id again
NextQuery(w) == IF win[w] > hi[w] THEN qi[w] + 1 ELSE qi[w]
NextStart(w) == IF win[w] > hi[w] THEN lo[w] ELSE win[w]

\* the sampler fetches the next window: one filtered query, ordered by id,
\* with a fresh abort flag
FetchWindow(w) ==
  /\ pc[w] = "fetch"
  /\ ~Exhausted(w)
  /\ LET q == NextQuery(w)
         a == NextStart(w)
         found == WindowRows(q, a, Min2(a + bs[w] - 1, hi[w]), est[w], thr[w])
     IN  /\ qi' = [qi EXCEPT ![w] = q]
         /\ win' = [win EXCEPT ![w] = a + bs[w]]
         /\ rows' = [rows EXCEPT ![w] = found]
         /\ pc' = [pc EXCEPT ![w] = IF found = <<>> THEN "fetch" ELSE "next"]
  /\ abt' = [abt EXCEPT ![w] = FALSE]
  /\ UNCHANGED <<token, mode, est, thr, lo, hi, bs, resp, sent>>
  /\ UNCHANGED env

(* mutant: the token that starts the next pass at max_id again *)
next_token_same(max_id) == ScanToken(max_id)

\* return ScanToken(max_id + 1)
next_token(max_id) == ScanToken(max_id + 1)

\* the iterator is used up: _index returns; perform_indexing returns
\* ScanToken(max_id + 1), perform_indexing_recent_manifests returns nothing
FinishPass(w) ==
  /\ pc[w] = "fetch"
  /\ Exhausted(w)
  /\ Return(w, IF mode[w] = "full" THEN next_token(hi[w]) ELSE token[w])
  /\ UNCHANGED env

\* the consumer is done with the candidate it was given and asks for the
\* next: the sampler stops the window when the flag is set
Advance(w, flag) ==
  /\ abt' = [abt EXCEPT ![w] = flag]
  /\ rows' = [rows EXCEPT ![w] = IF flag THEN <<>> ELSE Tail(@)]
  /\ pc' = [pc EXCEPT ![w] =
              IF flag \/ Tail(rows[w]) = <<>> THEN "fetch" ELSE "next"]
  /\ resp' = [resp EXCEPT ![w] = NoResp]
  /\ UNCHANGED <<token, mode, est, thr, lo, hi, bs, qi, win, sent>>

\* --------------------------------------------------------------- _index
Cur(w) == Head(rows[w])

\* manifest.is_manifest_list: mark_manifest_unsupported; continue
MarkList(w) ==
  /\ pc[w] = "next"
  /\ kind[Cur(w).id] = "list"
  /\ store' = mark_manifest_unsupported(store, Cur(w).id)
  /\ Advance(w, FALSE)
  /\ UNCHANGED <<kind, now, engine, api>>

(* mutant: the empty layer set that goes on to the preemption check *)
MarkNoLayersMissing(w) ==
  /\ pc[w] = "next"
  /\ kind[Cur(w).id] = "nolayers"
  /\ pc' = [pc EXCEPT ![w] = "submit"]
  /\ UNCHANGED <<token, mode, est, thr, lo, hi, bs, qi, win, rows, abt, resp, sent>>
  /\ UNCHANGED env

\* layers is None or len(layers) == 0: mark_manifest_unsupported; continue
MarkNoLayers(w) ==
  /\ pc[w] = "next"
  /\ kind[Cur(w).id] = "nolayers"
  /\ store' = mark_manifest_unsupported(store, Cur(w).id)
  /\ Advance(w, FALSE)
  /\ UNCHANGED <<kind, now, engine, api>>

\* the candidate reaches `if should_skip_indexing(candidate)`
AtCheck(w) == pc[w] = "next" /\ kind[Cur(w).id] = "image"

\* should_skip_indexing(candidate): abt.set(); continue
Preempted(w) ==
  /\ AtCheck(w)
  /\ should_skip_indexing(Cur(w), thr[w])
  /\ Advance(w, TRUE)
  /\ UNCHANGED env

PassCheck(w) ==
  /\ AtCheck(w)
  /\ ~should_skip_indexing(Cur(w), thr[w])
  /\ pc' = [pc EXCEPT ![w] = "submit"]
  /\ UNCHANGED <<token, mode, est, thr, lo, hi, bs, qi, win, rows, abt, resp, sent>>
  /\ UNCHANGED env

\* what the remote engine may answer to index(manifest, layers): a black box
Report(state, hash, err) ==
  [kind |-> "report", state |-> state, err |-> err, hash |-> hash]

\* report["err"]: the engine's error detail, as it comes
ErrorDetails == {"", "failed to scan"}

Answers ==
  {[kind |-> InvalidContentSent, state |-> "", err |-> "", hash |-> ""],
   [kind |-> APIRequestFailure, state |-> "", err |-> "", hash |-> ""]}
  \cup {Report(s, EngineHash, e) : s \in ReportStates, e \in ErrorDetails}

\* (report, state) = self._secscan_api.index(manifest, layers)
Submit(w) ==
  /\ pc[w] = "submit"
  /\ \E a \in Answers : resp' = [resp EXCEPT ![w] = a]
  /\ pc' = [pc EXCEPT ![w] = "handle"]
  /\ sent' = [sent EXCEPT ![w] = Append(@, Cur(w).id)]
  /\ UNCHANGED <<token, mode, est, thr, lo, hi, bs, qi, win, rows, abt>>
  /\ UNCHANGED env

\* except InvalidContentSent: mark_manifest_unsupported; continue
HandleInvalid(w) ==
  /\ pc[w] = "handle"
  /\ resp[w].kind = InvalidContentSent
  /\ store' = mark_manifest_unsupported(store, Cur(w).id)
  /\ Advance(w, FALSE)
  /\ UNCHANGED <<kind, now, engine, api>>

(* mutant: the transient failure recorded as a failed index *)
HandleFailureRecorded(w) ==
  /\ pc[w] = "handle"
  /\ resp[w].kind = APIRequestFailure
  /\ store' = delete_then_create(store, Cur(w).id,
                 NewStatus(Cur(w).id, FAILED, est[w], "{}"))
  /\ Advance(w, FALSE)
  /\ UNCHANGED <<kind, now, engine, api>>

\* except APIRequestFailure: continue
HandleFailure(w) ==
  /\ pc[w] = "handle"
  /\ resp[w].kind = APIRequestFailure
  /\ Advance(w, FALSE)
  /\ UNCHANGED env

\* "Unknown state don't save anything": continue
HandleUnknown(w) ==
  /\ pc[w] = "handle"
  /\ resp[w].kind = "report"
  /\ index_status_for(resp[w].state) = None
  /\ Advance(w, FALSE)
  /\ UNCHANGED env

(* mutant: the write that creates the row without the delete *)
write_status_create_only(st, m, index_status, report, state) ==
  insert_only(st, m, NewStatus(m, index_status, state, report.err))

\* with db_transaction(): delete the manifest's rows, create the new one
write_status(st, m, index_status, report, state) ==
  delete_then_create(st, m, NewStatus(m, index_status, state, report.err))

SaveStatus(w) ==
  /\ pc[w] = "handle"
  /\ resp[w].kind = "report"
  /\ index_status_for(resp[w].state) # None
  /\ store' = write_status(store, Cur(w).id, index_status_for(resp[w].state)[1],
                           resp[w], resp[w].hash)
  /\ Advance(w, FALSE)
  /\ UNCHANGED <<kind, now, engine, api>>

\* the worker is about to write to the status table
AtWrite(w) ==
  \/ pc[w] = "next" /\ kind[Cur(w).id] \in {"list", "nolayers"}
  \/ /\ pc[w] = "handle"
     /\ \/ resp[w].kind = InvalidContentSent
        \/ resp[w].kind = "report" /\ index_status_for(resp[w].state) # None

\* the status table is unavailable: the transaction raises, nothing in
\* _index or in the entry points catches it
StoreUnavailable(w) ==
  /\ AtWrite(w)
  /\ Raise(w)
  /\ UNCHANGED env

\* -------------------------------------------------------------------- Next
\* one step of worker w, whatever the other workers do
WorkerStep(w) ==
  \/ CallState(w)
  \/ StateFailed(w)
  \/ PerformIndexingEmpty(w)
  \/ PerformIndexingBegin(w)
  \/ RecentNoManifest(w)
  \/ RecentBegin(w)
  \/ FetchWindow(w)
  \/ FinishPass(w)
  \/ MarkList(w)
  \/ MarkNoLayers(w)
  \/ Preempted(w)
  \/ PassCheck(w)
  \/ Submit(w)
  \/ HandleInvalid(w)
  \/ HandleFailure(w)
  \/ HandleUnknown(w)
  \/ SaveStatus(w)

\* several workers over the same identifier range; the status table answers
Next ==
  \/ CreateManifest(MaxRaceManifest)
  \/ Tick
  \/ EngineUpgrade
  \/ \E w \in Workers : WorkerStep(w)

Spec == Init /\ [][Next]_vars

\* One worker alone.  Nothing else writes the table, so its preemption check
\* never fires (SoloNeverPreempted below) and Preempted is left out.
SoloStep(w) ==
  \/ CallState(w)
  \/ StateFailed(w)
  \/ PerformIndexingEmpty(w)
  \/ PerformIndexingBegin(w)
  \/ RecentNoManifest(w)
  \/ RecentBegin(w)
  \/ FetchWindow(w)
  \/ FinishPass(w)
  \/ MarkList(w)
  \/ MarkNoLayers(w)
  \/ PassCheck(w)
  \/ Submit(w)
  \/ HandleInvalid(w)
  \/ HandleFailure(w)
  \/ HandleUnknown(w)
  \/ SaveStatus(w)

NextSolo ==
  \/ CreateManifest(MaxManifest)
  \/ Tick
  \/ EngineUpgrade
  \/ SoloStep("w1")

SpecSolo == Init /\ [][NextSolo]_vars

\* with one worker no candidate is ever found preempted
SoloNeverPreempted ==
  AtCheck("w1") => ~should_skip_indexing(Cur("w1"), thr["w1"])

\* One worker, and a status table whose transactions may fail.
NextStoreFails ==
  \/ NextSolo
  \/ StoreUnavailable("w1")

SpecStoreFails == Init /\ [][NextStoreFails]_vars

\* ============================================================ features_for
\* bounds of the reports
MaxPackages == 2
MaxVulns == 2
MaxCandidates == 2

\* {}: the dict without keys
EmptyDict == [k \in {} |-> k]

\* d.get(k): a dict is a function, an absent key gives the default
Get(d, k, default) == IF k \in DOMAIN d THEN d[k] ELSE default

\* report["vulnerabilities"]: vulnerabilities 1 and 2 are the same CVE reported
\* from two repositories
Vulnerabilities ==
  <<[id |-> "1", name |-> "CVE-1", fixed_in_version |-> "0",
     normalized_severity |-> "High", updater |-> "u", links |-> "l1",
     description |-> "d1", repository |-> [name |-> "repo1", uri |-> "uri1"]],
    [id |-> "2", name |-> "CVE-1", fixed_in_version |-> "1.2",
     normalized_severity |-> "Unknown", updater |-> "u", links |-> "l2",
     description |-> "d2", repository |-> [name |-> "repo2", uri |-> "uri2"]],
    [id |-> "3", name |-> "CVE-2", fixed_in_version |-> "0.1",
     normalized_severity |-> "Unknown", updater |-> "u", links |-> "l3",
     description |-> "d3"]>>
VulnIds == 1..Len(Vulnerabilities)

PackageNames == {"lib", "lib_ssl"}
PackageVersions == {"1", "ssl_1"}

\* a candidate enrichment entry; baseScore is a decimal, ordered by Tenths
Candidates ==
  {[baseScore |-> "7.5", vectorString |-> "AV:L"],
   [baseScore |-> "9.0", vectorString |-> "AV:N"],
   [baseScore |-> "9.0", vectorString |-> "AV:A"]}
Tenths(baseScore) == IF baseScore = "7.5" THEN 75 ELSE 90

SeqsUpTo(S, n) == UNION {[1..k -> S] : k \in 0..n}

\* report["enrichments"]: a dict of sources, each a list whose first element
\* maps vulnerability ids to candidate entries
FirstSources ==
  {<<EmptyDict>>}
  \cup {<< [i \in {"1"} |-> c] >> : c \in SeqsUpTo(Candidates, MaxCandidates) \ {<<>>}}
OtherSource ==
  << [i \in {"1", "2"} |-> <<[baseScore |-> "9.8", vectorString |-> "AV:P"]>>] >>
Enrichments ==
  {<<>>} \cup {<<f>> : f \in FirstSources} \cup {<<f, OtherSource>> : f \in FirstSources}

Packages == [name : PackageNames, version : PackageVersions]

\* the reports a call of features_for is given
Reports ==
  UNION {[packages : {ps},
          package_vulnerabilities : [1..Len(ps) -> SeqsUpTo(VulnIds, MaxVulns)],
          enrichments : Enrichments] :
         ps \in SeqsUpTo(Packages, MaxPackages) \ {<<>>}}

\* util.secscan.fetch_vuln_severity: the reported severity, else one derived
\* from the enrichment's score
fetch_vuln_severity(vuln, enrichments) ==
  IF vuln.normalized_severity # "Unknown" THEN vuln.normalized_severity
  ELSE IF vuln.id \in DOMAIN enrichments THEN "FromScore" ELSE "Unknown"

\* pkg["name"] + "_" + pkg["version"] + "_" + vuln.get("name", "")
vuln_key(pkg, vuln) ==
  pkg.name \o "_" \o pkg.version \o "_" \o Get(vuln, "name", "")

\* for vuln_id in report["package_vulnerabilities"].get(pkg_id, []): the
\* vulnerabilities kept for the package, and dedupe_vulns after the loop
RECURSIVE pkg_vulns_of(_, _, _, _)
pkg_vulns_of(pkg, vuln_ids, dedupe_vulns, pkg_vulns) ==
  IF vuln_ids = <<>> THEN [pkg_vulns |-> pkg_vulns, dedupe_vulns |-> dedupe_vulns]
  ELSE LET vuln == Vulnerabilities[Head(vuln_ids)]
           vk == vuln_key(pkg, vuln)
       IN  pkg_vulns_of(pkg, Tail(vuln_ids), dedupe_vulns \cup {vk},
                        IF vk \in dedupe_vulns THEN pkg_vulns
                        ELSE Append(pkg_vulns, vuln))

(* mutant: the sort that puts the lowest base score first *)
RECURSIVE sorted_ascending(_)
sorted_ascending(val) ==
  IF val = <<>> THEN <<>>
  ELSE LET rest == sorted_ascending(SubSeq(val, 1, Len(val) - 1))
           x == val[Len(val)]
           k == Cardinality({i \in 1..Len(rest) :
                               Tenths(rest[i].baseScore) <= Tenths(x.baseScore)})
       IN  SubSeq(rest, 1, k) \o <<x>> \o SubSeq(rest, k + 1, Len(rest))

\* sorted(val, key=lambda x: x["baseScore"], reverse=True): a stable sort, so
\* entries with equal scores keep their order
RECURSIVE sorted_by_score(_)
sorted_by_score(val) ==
  IF val = <<>> THEN <<>>
  ELSE LET rest == sorted_by_score(SubSeq(val, 1, Len(val) - 1))
           x == val[Len(val)]
           k == Cardinality({i \in 1..Len(rest) :
                               Tenths(rest[i].baseScore) >= Tenths(x.baseScore)})
       IN  SubSeq(rest, 1, k) \o <<x>> \o SubSeq(rest, k + 1, Len(rest))

\* the enrichments dict: the first source's first element, each key with its
\* best candidate
enrichments_of(report) ==
  IF report.enrichments = <<>> THEN EmptyDict
  ELSE LET first == report.enrichments[1][1]
       IN  [key \in DOMAIN first |-> sorted_by_score(first[key])[1]]

(* mutant: the fixed-in version passed through as it is *)
fixed_by_raw(fixed_in_version) == fixed_in_version

\* vuln["fixed_in_version"] if vuln["fixed_in_version"] != "0" else ""
fixed_by(fixed_in_version) ==
  IF fixed_in_version # "0" THEN fixed_in_version ELSE ""

\* Vulnerability(...)
NormalizedVulnerability(vuln, enrichments) ==
  [Severity |-> fetch_vuln_severity(vuln, enrichments),
   NamespaceName |-> vuln.updater,
   Link |-> vuln.links,
   FixedBy |-> fixed_by(vuln.fixed_in_version),
   Description |-> vuln.description,
   Name |-> vuln.name,
   Metadata |->
     [UpdatedBy |-> vuln.updater,
      RepoName |-> Get(Get(vuln, "repository", EmptyDict), "name", "None"),
      RepoLink |-> Get(Get(vuln, "repository", EmptyDict), "uri", "None"),
      DistroName |-> Get(Get(vuln, "distribution", EmptyDict), "name", "None"),
      DistroVersion |-> Get(Get(vuln, "distribution", EmptyDict), "version", "None"),
      NVD |-> [CVSSv3 |->
        [Vectors |-> Get(Get(enrichments, vuln.id, EmptyDict), "vectorString", ""),
         Score |-> Get(Get(enrichments, vuln.id, EmptyDict), "baseScore", "")]]]]

\* Feature(pkg["name"], "", "", introduced_in, pkg["version"], [...])
Feature(pkg, pkg_vulns, enrichments) ==
  [Name |-> pkg.name, VersionFormat |-> "", NamespaceName |-> "",
   AddedBy |-> "layer", Version |-> pkg.version,
   Vulnerabilities |->
     [j \in 1..Len(pkg_vulns) |-> NormalizedVulnerability(pkg_vulns[j], enrichments)]]

\* for pkg_id, pkg in report["packages"].items(): dedupe_vulns lives across
\* the packages
RECURSIVE features_from(_, _, _, _)
features_from(report, pkg_id, dedupe_vulns, features) ==
  IF pkg_id > Len(report.packages) THEN features
  ELSE LET pkg == report.packages[pkg_id]
           kept == pkg_vulns_of(pkg, Get(report.package_vulnerabilities, pkg_id, <<>>),
                                dedupe_vulns, <<>>)
       IN  features_from(report, pkg_id + 1, kept.dedupe_vulns,
             Append(features, Feature(pkg, kept.pkg_vulns, enrichments_of(report))))

features_for(report) == features_from(report, 1, {}, <<>>)

\* the pipeline is idle while a function is called
Idle == UNCHANGED <<kind, store, now, engine, pc, token>> /\ UNCHANGED pass

\* every worker is idle
WorkersIdle ==
  /\ pc = [w \in Workers |-> "idle"]
  /\ token = [w \in Workers |-> None]
  /\ mode = [w \in Workers |-> "-"]
  /\ est = [w \in Workers |-> "-"]
  /\ thr = [w \in Workers |-> 0]
  /\ lo = [w \in Workers |-> 0]
  /\ hi = [w \in Workers |-> 0]
  /\ bs = [w \in Workers |-> 0]
  /\ qi = [w \in Workers |-> 0]
  /\ win = [w \in Workers |-> 0]
  /\ rows = [w \in Workers |-> <<>>]
  /\ abt = [w \in Workers |-> FALSE]
  /\ resp = [w \in Workers |-> NoResp]
  /\ sent = [w \in Workers |-> <<>>]

\* a function is called with input inp
Call(fn, inp) == [fn |-> fn, inp |-> inp, out |-> <<>>, done |-> FALSE]

\* the call in api returns out
Returns(fn, out) ==
  /\ api.fn = fn /\ ~api.done
  /\ api' = [api EXCEPT !.out = out, !.done = TRUE]
  /\ Idle

\* features_for is called with any of the reports
InitFeatures ==
  /\ kind = <<>>
  /\ store = [m \in ManifestIds |-> <<>>]
  /\ now = 0
  /\ engine = 1
  /\ WorkersIdle
  /\ \E report \in Reports : api = Call("features_for", report)

FeaturesFor == Returns("features_for", features_for(api.inp))

SpecFeatures == InitFeatures /\ [][FeaturesFor]_vars

\* ============================================ lookups and notifications
MaxPageLen == 2

Some(x) == <<x>>

\* PaginatedNotificationStatus
FATAL_ERROR == "FATAL_ERROR"
RETRYABLE_ERROR == "RETRYABLE_ERROR"
SUCCESS == "SUCCESS"

\* PaginatedNotificationResult(status, data, next_page_index)
PaginatedNotificationResult(status, data, next_page_index) ==
  [status |-> status, data |-> data, next_page_index |-> next_page_index]

\* the entries of a notification page
NotifiedVulnerabilities ==
  {[name |-> "CVE-9", normalized_severity |-> "High", description |-> "d9",
    package |-> [name |-> "lib"], fixed_in_version |-> "2.0", links |-> "l9"],
   [name |-> "CVE-8"]}
Notifications ==
  [reason : {"added", "removed", "changed"},
   manifest : {"sha256:a", "sha256:b"},
   vulnerability : NotifiedVulnerabilities]
Pages == SeqsUpTo(Notifications, MaxPageLen)

\* what retrieve_notification_page may do: fail, return None, or return a
\* page, with or without "page" and "next"
PageOutcomes ==
  {[kind |-> APIRequestFailure, value |-> EmptyDict],
   [kind |-> "none", value |-> EmptyDict]}
  \cup {[kind |-> "page", value |-> [notifications |-> n]] : n \in Pages}
  \cup {[kind |-> "page", value |-> [notifications |-> n, page |-> pg]] :
          n \in Pages, pg \in {EmptyDict, [next |-> "p2"]}}

(* mutant: the vanished notification set reported as retryable *)
lookup_notification_page_retrying(outcome) ==
  IF outcome.kind = "page"
  THEN PaginatedNotificationResult(SUCCESS, Some(outcome.value.notifications),
         IF "next" \in DOMAIN Get(outcome.value, "page", EmptyDict)
         THEN Some(Get(outcome.value, "page", EmptyDict).next) ELSE None)
  ELSE PaginatedNotificationResult(RETRYABLE_ERROR, None, None)

lookup_notification_page(outcome) ==
  IF outcome.kind = APIRequestFailure
  THEN PaginatedNotificationResult(RETRYABLE_ERROR, None, None)
  ELSE IF outcome.kind = "none"
  THEN PaginatedNotificationResult(FATAL_ERROR, None, None)
  ELSE PaginatedNotificationResult(SUCCESS, Some(outcome.value.notifications),
         IF "next" \in DOMAIN Get(outcome.value, "page", EmptyDict)
         THEN Some(Get(outcome.value, "page", EmptyDict).next) ELSE None)

(* mutant: the delete whose failure is not told to the caller *)
mark_notification_handled_always(outcome) == TRUE

\* outcome: what delete_notification did
mark_notification_handled(outcome) ==
  IF outcome = APIRequestFailure THEN FALSE ELSE TRUE

\* UpdatedVulnerability(manifest, Vulnerability(...))
UpdatedVulnerability(notification_data) ==
  [manifest |-> notification_data.manifest,
   vulnerability |->
     [Severity |-> Get(notification_data.vulnerability, "normalized_severity", "None"),
      Description |-> Get(notification_data.vulnerability, "description", "None"),
      NamespaceName |->
        Get(Get(notification_data.vulnerability, "package", EmptyDict), "name", "None"),
      Name |-> Get(notification_data.vulnerability, "name", "None"),
      FixedBy |-> Get(notification_data.vulnerability, "fixed_in_version", "None"),
      Link |-> Get(notification_data.vulnerability, "links", "None"),
      Metadata |-> EmptyDict]]

(* mutant: the page processed without looking at the reason *)
RECURSIVE process_every_reason(_)
process_every_reason(page_result) ==
  IF page_result = <<>> THEN <<>>
  ELSE <<UpdatedVulnerability(Head(page_result))>>
         \o process_every_reason(Tail(page_result))

\* the generator, as the sequence of what it yields
RECURSIVE process_notification_page(_)
process_notification_page(page_result) ==
  IF page_result = <<>> THEN <<>>
  ELSE IF Head(page_result).reason # "added"
  THEN process_notification_page(Tail(page_result))
  ELSE <<UpdatedVulnerability(Head(page_result))>>
         \o process_notification_page(Tail(page_result))

\* ScanLookupStatus
NOT_YET_INDEXED == "NOT_YET_INDEXED"
FAILED_TO_INDEX == "FAILED_TO_INDEX"
UNSUPPORTED_FOR_INDEXING == "UNSUPPORTED_FOR_INDEXING"
REQUEST_ERROR == "REQUEST_ERROR"
LOOKUP_SUCCESS == "LOOKUP_SUCCESS"

\* SecurityInformationLookupResult; asked: vulnerability_report was called
LookupResult(status, data, asked) ==
  [status |-> status, data |-> data, asked |-> asked]

\* the reports vulnerability_report may return for a manifest
StoredReports ==
  {[packages |-> <<[name |-> "lib", version |-> "1"]>>,
    package_vulnerabilities |-> <<vs>>, enrichments |-> <<>>] :
   vs \in {<<>>, <<1, 2>>}}

\* what vulnerability_report may do: fail, return None, or return a report
ReportOutcomes ==
  {[kind |-> APIRequestFailure, report |-> EmptyDict],
   [kind |-> "none", report |-> EmptyDict]}
  \cup {[kind |-> "report", report |-> r] : r \in StoredReports}

\* the manifests and the legacy image a lookup may be about
LookupTargets ==
  {[is_manifest |-> TRUE, id |-> m] : m \in {1, 2}}
  \cup {[is_manifest |-> FALSE, id |-> 1]}

\* from vulnerability_report on
report_lookup(outcome) ==
  IF outcome.kind = APIRequestFailure THEN LookupResult(REQUEST_ERROR, None, TRUE)
  ELSE IF outcome.kind = "none" THEN LookupResult(NOT_YET_INDEXED, None, TRUE)
  ELSE LookupResult(LOOKUP_SUCCESS, Some(features_for(outcome.report)), TRUE)

(* mutant: the lookup that takes a record in progress for a finished one *)
load_in_progress_as_completed(st, target, outcome) ==
  IF ~target.is_manifest THEN LookupResult(UNSUPPORTED_FOR_INDEXING, None, FALSE)
  ELSE IF st[target.id] = <<>> THEN LookupResult(NOT_YET_INDEXED, None, FALSE)
  ELSE IF st[target.id][1].index_status = FAILED
  THEN LookupResult(FAILED_TO_INDEX, None, FALSE)
  ELSE IF st[target.id][1].index_status = MANIFEST_UNSUPPORTED
  THEN LookupResult(UNSUPPORTED_FOR_INDEXING, None, FALSE)
  ELSE report_lookup(outcome)

\* st: the status table; outcome: what vulnerability_report does when called
load_security_information(st, target, outcome) ==
  IF ~target.is_manifest THEN LookupResult(UNSUPPORTED_FOR_INDEXING, None, FALSE)
  ELSE IF st[target.id] = <<>> THEN LookupResult(NOT_YET_INDEXED, None, FALSE)
  ELSE IF st[target.id][1].index_status = FAILED
  THEN LookupResult(FAILED_TO_INDEX, None, FALSE)
  ELSE IF st[target.id][1].index_status = MANIFEST_UNSUPPORTED
  THEN LookupResult(UNSUPPORTED_FOR_INDEXING, None, FALSE)
  ELSE IF st[target.id][1].index_status = IN_PROGRESS
  THEN LookupResult(NOT_YET_INDEXED, None, FALSE)
  ELSE report_lookup(outcome)

\* the calls that can be made
Calls ==
  {Call("lookup_notification_page", o) : o \in PageOutcomes}
  \cup {Call("process_notification_page", n) : n \in Pages}
  \cup {Call("mark_notification_handled", o) : o \in {"deleted", APIRequestFailure}}
  \cup {Call("load_security_information", [target |-> t, outcome |-> o]) :
          t \in LookupTargets, o \in ReportOutcomes}

\* the status table of two image manifests: manifest 1 has any record or
\* none, manifest 2 has none
StatusTables ==
  {[m \in ManifestIds |-> IF m = 1 THEN t ELSE <<>>] :
     t \in {<<>>} \cup
           {<<NewStatus(1, status, hash, "")>> :
              status \in {COMPLETED, FAILED, MANIFEST_UNSUPPORTED, IN_PROGRESS},
              hash \in {Fingerprints[1], "none"}}}

InitApi ==
  /\ kind = <<"image", "image">>
  /\ now = 0
  /\ engine = 1
  /\ store \in StatusTables
  /\ WorkersIdle
  /\ api \in Calls

LookupNotificationPage ==
  Returns("lookup_notification_page", lookup_notification_page(api.inp))

ProcessNotificationPage ==
  Returns("process_notification_page", process_notification_page(api.inp))

MarkNotificationHandled ==
  Returns("mark_notification_handled", mark_notification_handled(api.inp))

LoadSecurityInformation ==
  Returns("load_security_information",
          load_security_information(store, api.inp.target, api.inp.outcome))

NextApi ==
  \/ LookupNotificationPage
  \/ ProcessNotificationPage
  \/ MarkNotificationHandled
  \/ LoadSecurityInformation

SpecApi == InitApi /\ [][NextApi]_vars

\* ============================================================== properties
\* worker w takes a step
Moved(w) == <<pc[w], rows[w], qi[w], win[w]>>' # <<pc[w], rows[w], qi[w], win[w]>>

\* worker w's sampler fetches a window
Fetched(w) ==
  /\ pc[w] = "fetch" /\ pc'[w] # "idle"
  /\ <<qi[w], win[w]>>' # <<qi[w], win[w]>>

\* worker w runs a delete-then-create transaction on its candidate's manifest
Writes(w) == AtWrite(w) /\ Moved(w) /\ pc'[w] # "idle"

\* worker w hands its candidate to the remote engine
Submits(w) == pc[w] = "submit" /\ pc'[w] = "handle"

RowsOf(m) == {store[m][i] : i \in 1..Len(store[m])}

\* a record that means "do not touch" for a pass with this threshold
DoNotTouch(r, reindex_threshold) ==
  r.index_status # IN_PROGRESS /\ r.last_indexed >= reindex_threshold

\* C1: in every reachable state, whatever the interleaving of the workers,
\* each manifest has at most one status record.
C1_AtMostOneRecord == \A m \in ManifestIds : Len(store[m]) <= 1

\* a worker that was given a manifest without a record is about to write its
\* status while another worker's record for that manifest is in the table
C1_Witness ==
  \E w \in Workers :
    /\ pc[w] = "handle" /\ resp[w].kind = "report"
    /\ Cur(w).mss = <<>>
    /\ Len(store[Cur(w).id]) = 1

\* C3 (as claimed): a candidate at the preemption check whose manifest has, in
\* the table at that moment, a record at or after the threshold, or any record
\* when the candidate came from the no-status-record query, is not submitted:
\* the abort flag is set and the table is left as it is.
StoreClaims(w) ==
  \/ \E r \in RowsOf(Cur(w).id) : r.last_indexed >= thr[w]
  \/ qi[w] = 1 /\ RowsOf(Cur(w).id) # {}

C3_PreemptionCheck ==
  [][\A w \in Workers :
       (AtCheck(w) /\ StoreClaims(w) /\ Moved(w))
         => (abt'[w] /\ pc'[w] \notin {"submit", "handle"} /\ store' = store)]_vars

\* C4 (as claimed): no worker deletes or replaces a record that is not
\* InProgress and is at or after that worker's reindex threshold.
C4_NeverTouchesFresh ==
  [][\A w \in Workers :
       Writes(w) => \A r \in RowsOf(Cur(w).id) : ~DoNotTouch(r, thr[w])]_vars

\* C4 (amended): no window query selects a manifest whose record is, when the
\* query runs, not InProgress and at or after the worker's threshold; and the
\* records at or after the threshold that a worker deletes are never the row
\* its query joined: they were written after the query.
C4_TouchesOnlyLaterWrites ==
  [][\A w \in Workers :
       /\ Fetched(w) =>
            \A i \in 1..Len(rows'[w]) :
              \A r \in RowsOf(rows'[w][i].id) : ~DoNotTouch(r, thr[w])
       /\ Writes(w) =>
            \A r \in RowsOf(Cur(w).id) :
              DoNotTouch(r, thr[w]) => Cur(w).mss # <<r>>]_vars

\* a worker is about to replace a record written after its query, which is at
\* or after its threshold
C4_Witness ==
  \E w \in Workers :
    /\ pc[w] = "handle" /\ resp[w].kind = "report"
    /\ index_status_for(resp[w].state) # None
    /\ \E r \in RowsOf(Cur(w).id) :
         DoNotTouch(r, thr[w]) /\ Cur(w).mss # <<r>>

\* C5 (as claimed): once a manifest's record is Unsupported it stays
\* Unsupported and the manifest is never submitted to the remote engine.
IsUnsupported(m) ==
  \E r \in RowsOf(m) : r.index_status = MANIFEST_UNSUPPORTED

C5_UnsupportedPermanent ==
  [][\A m \in ManifestIds :
       IsUnsupported(m) =>
         /\ RowsOf(m)' # {}
         /\ \A r \in RowsOf(m)' : r.index_status = MANIFEST_UNSUPPORTED
         /\ \A w \in Workers : ~(Submits(w) /\ Cur(w).id = m)]_vars

\* C5 (amended): no window query, of either entry point, selects a manifest
\* whose record is Unsupported when the query runs, whatever the fingerprint
\* and the record's age; a worker that submits a manifest or writes its record
\* holds a candidate whose joined row was not Unsupported.
C5_UnsupportedNeverSelected ==
  [][\A w \in Workers :
       /\ Fetched(w) =>
            \A i \in 1..Len(rows'[w]) : ~IsUnsupported(rows'[w][i].id)
       /\ (pc[w] \in {"submit", "handle"} /\ Moved(w)) =>
            \A i \in 1..Len(Cur(w).mss) :
              Cur(w).mss[i].index_status # MANIFEST_UNSUPPORTED]_vars

\* the third query has run over a manifest whose Unsupported record is older
\* than the threshold and carries another fingerprint than the engine's, and
\* has not selected it
C5_Witness ==
  \E w \in Workers :
    /\ pc[w] = "fetch" /\ qi[w] = 3 /\ win[w] > hi[w]
    /\ \E m \in lo[w]..hi[w] :
         \E r \in RowsOf(m) :
           /\ r.index_status = MANIFEST_UNSUPPORTED
           /\ r.last_indexed < thr[w]
           /\ r.indexer_hash # est[w]
           /\ est[w] = Fingerprints[2]

\* C6: a candidate that is a manifest list, or has no layers, is never
\* submitted to the remote engine; its record is replaced by one Unsupported
\* record and the worker goes on with the next candidate.
C6_ListOrNoLayers ==
  [][\A w \in Workers :
       /\ (pc[w] = "next" /\ kind[Cur(w).id] \in {"list", "nolayers"} /\ Moved(w))
            => /\ store'[Cur(w).id] =
                    <<NewStatus(Cur(w).id, MANIFEST_UNSUPPORTED, "none", "{}")>>
               /\ \A m \in ManifestIds \ {Cur(w).id} : store'[m] = store[m]
               /\ rows'[w] = Tail(rows[w])
               /\ pc'[w] = IF Tail(rows[w]) = <<>> THEN "fetch" ELSE "next"
       /\ pc'[w] \in {"submit", "handle"} => kind[Head(rows'[w]).id] = "image"]_vars

\* a manifest of the window was marked Unsupported in this tick and the worker
\* is at the next candidate of the same window
C6_Witness ==
  \E w \in Workers :
    /\ pc[w] = "next"
    /\ \E m \in lo[w]..hi[w] :
         /\ m < Cur(w).id
         /\ kind[m] \in {"list", "nolayers"}
         /\ store[m] = <<NewStatus(m, MANIFEST_UNSUPPORTED, "none", "{}")>>

\* C7: what the remote engine answers decides the write: invalid content
\* writes Unsupported, a finished report Completed, an error report Failed,
\* a report in any other state nothing.
C7_OutcomeDecidesWrite ==
  [][\A w \in Workers :
       (pc[w] = "handle" /\ Moved(w)) =>
         LET m == Cur(w).id
             a == resp[w]
             written(status, hash) ==
               /\ Len(store'[m]) = 1
               /\ store'[m][1].index_status = status
               /\ store'[m][1].indexer_hash = hash
               /\ store'[m][1].last_indexed = now
         IN  /\ a.kind = InvalidContentSent => written(MANIFEST_UNSUPPORTED, "none")
             /\ (a.kind = "report" /\ a.state = Index_Finished)
                  => written(COMPLETED, a.hash)
             /\ (a.kind = "report" /\ a.state = Index_Error)
                  => written(FAILED, a.hash)
             /\ (a.kind = "report" /\ a.state \notin {Index_Finished, Index_Error})
                  => store' = store
             /\ \A o \in ManifestIds \ {m} : store'[o] = store[o]]_vars

\* the engine answered with a report that is neither finished nor failed, for
\* a manifest that has a record
C7_Witness ==
  \E w \in Workers :
    /\ pc[w] = "handle" /\ resp[w].kind = "report"
    /\ resp[w].state \notin {Index_Finished, Index_Error}
    /\ store[Cur(w).id] # <<>>

\* the candidate is among the results of query q for every threshold from
\* reindex_threshold on
StillSelected(c, q, indexer_hash, reindex_threshold) ==
  \A t \in reindex_threshold..MaxTime :
    \E i \in 1..Len(Query(q, c.id, indexer_hash, t)) :
      Query(q, c.id, indexer_hash, t)[i] = c

\* C8: when index() fails transiently the worker writes nothing, goes on with
\* the next candidate of the pass, and the manifest is selected again by the
\* same query at this and every later threshold.
C8_TransientFailure ==
  [][\A w \in Workers :
       (pc[w] = "handle" /\ resp[w].kind = APIRequestFailure /\ Moved(w)) =>
         /\ store' = store
         /\ rows'[w] = Tail(rows[w])
         /\ pc'[w] = IF Tail(rows[w]) = <<>> THEN "fetch" ELSE "next"
         /\ <<mode[w], thr[w], lo[w], hi[w], qi[w], win[w]>>'
              = <<mode[w], thr[w], lo[w], hi[w], qi[w], win[w]>>
         /\ StillSelected(Cur(w), qi[w], est[w], thr[w])]_vars

\* index() failed for a candidate that is not the last of its window
C8_Witness ==
  \E w \in Workers :
    /\ pc[w] = "handle" /\ resp[w].kind = APIRequestFailure
    /\ Len(rows[w]) > 1

\* C9 (as claimed): a failing write to the status table does not end the
\* pass: a worker whose window holds further candidates goes on with them.
C9_StoreFailureScoped ==
  [][\A w \in Workers :
       (AtWrite(w) /\ Moved(w) /\ Len(rows[w]) > 1)
         => (pc'[w] = "next" /\ rows'[w] = Tail(rows[w]))]_vars

\* C10: perform_indexing returns None, having submitted and written nothing,
\* when state() fails, and when there is no manifest or the start identifier
\* is past the largest one; otherwise it runs the pass over identifiers up to
\* the largest one read at its start, max_id, and returns ScanToken(max_id + 1).
C10_ReturnValue ==
  [][\A w \in Workers :
       mode[w] = "full" =>
         LET failed == est[w] = APIRequestFailure
             empty == \/ Len(kind) = 0
                      \/ token[w] # None /\ token[w][1] > Len(kind)
             begins == pc[w] = "started" /\ Moved(w)
             inpass(p) == p \notin {"idle", "started"}
         IN  /\ (begins /\ (failed \/ empty))
                  => (pc'[w] = "idle" /\ token'[w] = None /\ store' = store)
             /\ (begins /\ ~failed /\ ~empty)
                  => (pc'[w] = "fetch" /\ hi'[w] = Len(kind))
             /\ (inpass(pc[w]) /\ inpass(pc'[w])) => hi'[w] = hi[w]
             /\ (inpass(pc[w]) /\ pc'[w] = "idle")
                  => token'[w] = ScanToken(hi[w] + 1)]_vars

\* a pass has returned its token although the engine gave no usable answer
\* for an image manifest of its range
C10_Witness ==
  \E w \in Workers :
    /\ pc[w] = "idle" /\ token[w] = ScanToken(Len(kind) + 1)
    /\ \E m \in Existing : kind[m] = "image" /\ store[m] = <<>>

\* perform_indexing is called with the engine answering state()
CallPerformIndexing(w) ==
  CallState(w) /\ mode'[w] = "full" /\ est'[w] # APIRequestFailure

\* one worker whose calls go on for ever: every step of a call is taken, and
\* perform_indexing is called again and again with the engine answering
SpecSoloFair ==
  /\ Init
  /\ [][NextSolo]_vars
  /\ WF_vars(SoloStep("w1"))
  /\ SF_vars(CallPerformIndexing("w1"))

\* a pass of perform_indexing is running and identifier m is in its range
Scanning(w, m) ==
  /\ mode[w] = "full" /\ pc[w] \notin {"idle", "started"}
  /\ lo[w] <= m /\ m <= hi[w]

\* C2: passes chained by their tokens scan contiguous ranges: a pass starts at
\* the token it is given (at the smallest identifier without one) unless no
\* identifier is left from there on, reads max_id, and hands on the token
\* max_id + 1 ...
C2_Contiguous ==
  [][\A w \in Workers :
       mode[w] = "full" =>
         /\ (pc[w] = "started" /\ pc'[w] = "fetch")
              => /\ lo'[w] = IF token[w] = None THEN 1 ELSE token[w][1]
                 /\ hi'[w] = Len(kind)
         /\ (pc[w] = "started" /\ pc'[w] = "idle" /\ est[w] # APIRequestFailure)
              => \/ Len(kind) = 0
                 \/ token[w] # None /\ token[w][1] > Len(kind)
         /\ (pc[w] \notin {"idle", "started"} /\ pc'[w] = "idle")
              => token'[w] = ScanToken(hi[w] + 1)
         /\ (pc[w] \notin {"idle", "started"} /\ pc'[w] # "idle")
              => <<lo[w], hi[w]>>' = <<lo[w], hi[w]>>]_vars

\* ... so that every identifier that exists, created during a pass or not, is
\* eventually in the range of a pass.
C2_TokenChainCovers ==
  /\ C2_Contiguous
  /\ \A m \in ManifestIds :
       [](m \in Existing => <>(\E w \in Workers : Scanning(w, m)))

\* a pass resumed from a token and scans identifiers created after the pass
\* before it read max_id
C2_Witness ==
  \E w \in Workers :
    /\ mode[w] = "full" /\ pc[w] = "fetch"
    /\ token[w] # None /\ lo[w] = token[w][1] /\ lo[w] > 1 /\ lo[w] <= hi[w]

\* C11 (as claimed): every record with status Completed or Unsupported has
\* an empty error detail; only Failed records carry the engine's error detail.
C11_ErrorDetailOnlyWhenFailed ==
  \A m \in ManifestIds :
    \A r \in RowsOf(m) :
      r.index_status \in {COMPLETED, MANIFEST_UNSUPPORTED}
        => r.error_json \in {"", "{}"}

\* the table holds, for the worker's manifest, the record that its own answer
\* from index() would write
SameWriteDone(w) ==
  /\ pc[w] = "handle" /\ resp[w].kind = "report"
  /\ index_status_for(resp[w].state) # None
  /\ Len(store[Cur(w).id]) = 1
  /\ store[Cur(w).id][1].index_status = index_status_for(resp[w].state)[1]
  /\ store[Cur(w).id][1].indexer_hash = resp[w].hash
  /\ store[Cur(w).id][1].error_json = resp[w].err

\* C12: the status write is idempotent: writing again for the same manifest
\* with the same report and fingerprint leaves exactly one record, with the
\* status, fingerprint, indexer version and error detail of the first write.
C12_WriteIdempotent ==
  [][\A w \in Workers :
       (SameWriteDone(w) /\ Moved(w)) =>
         LET before == store[Cur(w).id][1]
             after == store'[Cur(w).id]
         IN  /\ Len(after) = 1
             /\ after[1].index_status = before.index_status
             /\ after[1].indexer_hash = before.indexer_hash
             /\ after[1].indexer_version = before.indexer_version
             /\ after[1].error_json = before.error_json]_vars

\* two workers hold the same answer for the same manifest and one of them has
\* written it
C12_Witness ==
  \E w \in Workers : \E v \in Workers \ {w} :
    /\ SameWriteDone(w)
    /\ pc[v] \in {"next", "fetch", "idle"}
    /\ store[Cur(w).id][1].last_indexed = now

\* features_for has returned
Normalized == api.fn = "features_for" /\ api.done

\* the positions of a package's entries that are the first of their
\* (package name, package version, vulnerability name) among its own entries
FirstOfKey(vuln_ids) ==
  SelectSeq([j \in 1..Len(vuln_ids) |-> j],
            LAMBDA j : \A h \in 1..(j - 1) :
              Vulnerabilities[vuln_ids[h]].name # Vulnerabilities[vuln_ids[j]].name)

\* C16 (as claimed): features_for returns one Feature per package, whose
\* vulnerabilities are the package's own entries deduplicated by (package
\* name, package version, vulnerability name), first occurrence kept; no entry
\* is dropped because of another package's entry or of a different key.
C16_DedupePerPackage ==
  Normalized =>
    /\ Len(api.out) = Len(api.inp.packages)
    /\ \A i \in 1..Len(api.out) :
         LET vuln_ids == api.inp.package_vulnerabilities[i]
             first == FirstOfKey(vuln_ids)
             found == api.out[i].Vulnerabilities
         IN  /\ api.out[i].Name = api.inp.packages[i].name
             /\ api.out[i].Version = api.inp.packages[i].version
             /\ Len(found) = Len(first)
             /\ \A j \in 1..Len(found) :
                  j <= Len(first) =>
                    found[j].Link = Vulnerabilities[vuln_ids[first[j]]].links

\* the vulnerability of the report that a normalized vulnerability came from
SourceOf(normalized) ==
  CHOOSE v \in {Vulnerabilities[i] : i \in VulnIds} : v.links = normalized.Link

\* the first of the candidates with the highest base score
Best(candidates) ==
  candidates[CHOOSE b \in 1..Len(candidates) :
    /\ \A h \in 1..Len(candidates) :
         Tenths(candidates[h].baseScore) <= Tenths(candidates[b].baseScore)
    /\ \A h \in 1..(b - 1) :
         Tenths(candidates[h].baseScore) < Tenths(candidates[b].baseScore)]

\* C18: the CVSS vector and score of a normalized vulnerability are those of
\* the candidate with the highest base score among the candidates the first
\* enrichment source has for its id, the first of them when scores are equal;
\* they are empty when that source has none.
C18_EnrichmentFromFirstSource ==
  Normalized =>
    \A i \in 1..Len(api.out) :
      \A j \in 1..Len(api.out[i].Vulnerabilities) :
        LET normalized == api.out[i].Vulnerabilities[j]
            id == SourceOf(normalized).id
            cvss == normalized.Metadata.NVD.CVSSv3
            enriched == /\ api.inp.enrichments # <<>>
                        /\ id \in DOMAIN api.inp.enrichments[1][1]
        IN  IF enriched
            THEN /\ cvss.Vectors = Best(api.inp.enrichments[1][1][id]).vectorString
                 /\ cvss.Score = Best(api.inp.enrichments[1][1][id]).baseScore
            ELSE cvss.Vectors = "" /\ cvss.Score = ""

\* two sources; the first has two candidates with the highest score for a
\* vulnerability of the output, and none for another
C18_Witness ==
  /\ Normalized
  /\ Len(api.inp.enrichments) = 2
  /\ "1" \in DOMAIN api.inp.enrichments[1][1]
  /\ Len(api.inp.enrichments[1][1]["1"]) = 2
  /\ api.inp.enrichments[1][1]["1"][1].baseScore = "9.0"
  /\ api.inp.enrichments[1][1]["1"][2].baseScore = "9.0"
  /\ api.inp.enrichments[1][1]["1"][1] # api.inp.enrichments[1][1]["1"][2]
  /\ \E i \in 1..Len(api.out) :
       /\ \E j \in 1..Len(api.out[i].Vulnerabilities) :
            api.out[i].Vulnerabilities[j].Link = "l1"
       /\ \E j \in 1..Len(api.out[i].Vulnerabilities) :
            api.out[i].Vulnerabilities[j].Link = "l3"

\* C19: the fixed-in version of a normalized vulnerability is "" when the
\* report's fixed_in_version is "0", and the report's value otherwise.
C19_FixedInVersion ==
  Normalized =>
    \A i \in 1..Len(api.out) :
      \A j \in 1..Len(api.out[i].Vulnerabilities) :
        LET normalized == api.out[i].Vulnerabilities[j]
            reported == SourceOf(normalized).fixed_in_version
        IN  normalized.FixedBy = IF reported = "0" THEN "" ELSE reported

\* a package whose vulnerabilities are fixed in "0" and in "0.1"
C19_Witness ==
  /\ Normalized
  /\ \E i \in 1..Len(api.out) :
       /\ Len(api.out[i].Vulnerabilities) = 2
       /\ api.out[i].Vulnerabilities[1].Link = "l1"
       /\ api.out[i].Vulnerabilities[1].FixedBy = ""
       /\ api.out[i].Vulnerabilities[2].Link = "l3"
       /\ api.out[i].Vulnerabilities[2].FixedBy = "0.1"

\* function fn has returned
Returned(fn) == api.fn = fn /\ api.done

\* C13: lookup_notification_page turns every remote outcome into a value: a
\* vanished notification set (None) gives FATAL_ERROR, a failed call gives
\* RETRYABLE_ERROR, both without entries and token; a page gives SUCCESS with
\* its entries and its next token, no token when the page has none.
C13_LookupClassifies ==
  Returned("lookup_notification_page") =>
    /\ api.inp.kind = "none"
         => api.out = [status |-> FATAL_ERROR, data |-> None,
                       next_page_index |-> None]
    /\ api.inp.kind = APIRequestFailure
         => api.out = [status |-> RETRYABLE_ERROR, data |-> None,
                       next_page_index |-> None]
    /\ api.inp.kind = "page"
         => /\ api.out.status = SUCCESS
            /\ api.out.data = <<api.inp.value.notifications>>
            /\ api.out.next_page_index =
                 IF "page" \in DOMAIN api.inp.value
                      /\ "next" \in DOMAIN api.inp.value["page"]
                 THEN <<api.inp.value["page"]["next"]>> ELSE None

\* a page with entries and no next token was looked up
C13_Witness ==
  /\ Returned("lookup_notification_page")
  /\ api.inp.kind = "page"
  /\ api.inp.value.notifications # <<>>
  /\ "page" \in DOMAIN api.inp.value
  /\ api.out.next_page_index = None

\* C14: process_notification_page yields one UpdatedVulnerability for each
\* entry whose reason is "added", in the order of the page, and nothing for
\* the other entries; each refers to its entry's manifest and has empty
\* Metadata.
C14_OnlyAddedEntries ==
  Returned("process_notification_page") =>
    LET added == SelectSeq(api.inp, LAMBDA n : n.reason = "added")
    IN  /\ Len(api.out) = Len(added)
        /\ \A i \in 1..Len(api.out) :
             i <= Len(added) =>
               /\ api.out[i].manifest = added[i].manifest
               /\ api.out[i].vulnerability.Name = added[i].vulnerability.name
               /\ DOMAIN api.out[i].vulnerability.Metadata = {}

\* a page whose first entry is not "added" and whose second is
C14_Witness ==
  /\ Returned("process_notification_page")
  /\ Len(api.inp) = 2
  /\ api.inp[1].reason = "removed" /\ api.inp[2].reason = "added"
  /\ api.inp[1].manifest # api.inp[2].manifest
  /\ Len(api.out) = 1

\* C15: mark_notification_handled returns true when the remote delete
\* succeeds and false, as a value, when it fails.
C15_HandledOrNot ==
  Returned("mark_notification_handled") =>
    api.out = (api.inp # APIRequestFailure)

\* the remote delete failed
C15_Witness ==
  /\ Returned("mark_notification_handled")
  /\ api.inp = APIRequestFailure

\* the record of the manifest a lookup is about
RecordOf(target) == store[target.id]

\* C17: the lookup maps no record to NotYetIndexed, Failed to FailedToIndex,
\* Unsupported to UnsupportedForIndexing, InProgress to NotYetIndexed, and
\* Completed to RequestError when the report fetch fails, NotYetIndexed when
\* the engine has no report, the normalized features otherwise; it calls the
\* engine only for a Completed record and never writes to the table.
C17_LookupMapping ==
  [][(api.fn = "load_security_information" /\ api.inp.target.is_manifest
        /\ ~api.done /\ api'.done) =>
       LET r == RecordOf(api.inp.target)
           status == IF r = <<>> THEN "no record" ELSE r[1].index_status
           o == api.inp.outcome
           res == api'.out
       IN  /\ store' = store
           /\ res.asked = (status = COMPLETED)
           /\ status = "no record" => res.status = NOT_YET_INDEXED
           /\ status = FAILED => res.status = FAILED_TO_INDEX
           /\ status = MANIFEST_UNSUPPORTED => res.status = UNSUPPORTED_FOR_INDEXING
           /\ status = IN_PROGRESS => res.status = NOT_YET_INDEXED
           /\ (status = COMPLETED /\ o.kind = APIRequestFailure)
                => res.status = REQUEST_ERROR
           /\ (status = COMPLETED /\ o.kind = "none")
                => res.status = NOT_YET_INDEXED
           /\ (status = COMPLETED /\ o.kind = "report")
                => /\ res.status = LOOKUP_SUCCESS
                   /\ res.data = <<features_for(o.report)>>
           /\ res.status # LOOKUP_SUCCESS => res.data = None]_vars

\* a record in progress was looked up while the engine had a report
C17_Witness ==
  /\ Returned("load_security_information")
  /\ api.inp.target.is_manifest
  /\ RecordOf(api.inp.target) # <<>>
  /\ RecordOf(api.inp.target)[1].index_status = IN_PROGRESS
  /\ api.inp.outcome.kind = "report"
  /\ api.inp.outcome.report.package_vulnerabilities[1] # <<>>

\* C20 (as claimed): in one perform_indexing pass of a single worker every
\* manifest is handed to the remote engine at most once.
C20_SubmittedAtMostOnce ==
  \A w \in Workers :
    mode[w] = "full" =>
      \A i \in 1..Len(sent[w]) : \A j \in 1..Len(sent[w]) :
        sent[w][i] = sent[w][j] => i = j

\* manifest m needs nothing from an engine with this fingerprint: its record is
\* Completed under that fingerprint, or Unsupported
Settled(m, indexer_hash) ==
  /\ Len(store[m]) = 1
  /\ \/ /\ store[m][1].index_status = COMPLETED
        /\ store[m][1].indexer_hash = indexer_hash
     \/ store[m][1].index_status = MANIFEST_UNSUPPORTED

\* worker w is in a perform_indexing pass, the engine still has the fingerprint
\* the pass read, and every manifest of the scanned range is settled under it
Quiescent(w) ==
  /\ mode[w] = "full" /\ pc[w] \notin {"idle", "started"}
  /\ est[w] = EngineHash
  /\ \A m \in lo[w]..hi[w] : Settled(m, est[w])

\* C21: quiescence.  While the engine keeps the fingerprint the pass read and
\* every manifest of the scanned range has a record that is Completed with that
\* fingerprint or Unsupported, a step of the perform_indexing pass changes no
\* row of the status table, selects no candidate, hands nothing to the engine
\* and leaves the range as settled as it was; so a pass that begins over such
\* a range ends having submitted nothing and written nothing, however old the
\* records are.
C21_Quiescence ==
  [][\A w \in Workers :
       (Quiescent(w) /\ Moved(w)) =>
         /\ store' = store
         /\ rows[w] = <<>> /\ rows'[w] = <<>>
         /\ ~Submits(w) /\ ~Writes(w)
         /\ pc'[w] \in {"fetch", "idle"}
         /\ pc'[w] # "idle" => Quiescent(w)' /\ sent'[w] = sent[w]]_vars

\* a pass has run out of windows over a range of two manifests that were both
\* settled before it began (their records are older than its threshold), one
\* Completed under the current fingerprint, the other Unsupported, and has
\* submitted nothing
C21_Witness ==
  \E w \in Workers :
    /\ Quiescent(w) /\ pc[w] = "fetch" /\ Exhausted(w)
    /\ sent[w] = <<>>
    /\ \A m \in lo[w]..hi[w] : store[m][1].last_indexed < thr[w]
    /\ \E m \in lo[w]..hi[w] : store[m][1].index_status = COMPLETED
    /\ \E m \in lo[w]..hi[w] :
         store[m][1].index_status = MANIFEST_UNSUPPORTED

====
